---- MODULE Spec2Model ----
(***************************************************************************)
(* State-machine model of the heat-points sampling pipeline of             *)
(* app/routes/dev.py (the blueprint registered by app/__init__.py):        *)
(* query parsing, file check, streaming feature scan, weight-key           *)
(* resolution, geometry reduction, reservoir / first-N sampling and        *)
(* weight normalization.                                                   *)
(*                                                                         *)
(* Python values are modelled as follows.                                  *)
(*   - a float or a JSON scalar is a record [k, v]: k = "num" carries the  *)
(*     integer v; "nan", "inf", "-inf" are the non-finite floats; "str"    *)
(*     is a value float() rejects; "none" is None / an absent value;       *)
(*   - an exact quotient (a centroid coordinate, an intensity) is a        *)
(*     reduced fraction <<n, d>> with d > 0;                               *)
(*   - Optional[str] is a string, NoKey standing for None.                 *)
(***************************************************************************)
EXTENDS Integers, Sequences, FiniteSets, TLC

VARIABLES
    ijson,  \* the module-level name ijson is bound to the decoder (FALSE: it is None)
    disk,   \* file name -> document stored under static/data (read-only)
    reqs,   \* request id -> the local state of that call of heat_points
    rng,    \* generator object id -> position in the seeded generator's word stream
    u       \* the sampler under uniform draws: capacity, stream length, distribution

vars == <<ijson, disk, reqs, rng, u>>

----------------------------------------------------------------------------
\* Bounds of the model.

\* longest decodable prefix of a feature array
MaxFeatures == 3
\* largest requested capacity (max=...) that is enumerated
MaxCap == 3
\* largest capacity of the sampler under uniform draws
MaxUCap == 2
\* longest stream offered to the sampler under uniform draws
MaxStream == 6

----------------------------------------------------------------------------
\* Python scalars.

Num(n) == [k |-> "num", v |-> n]
NaN == [k |-> "nan", v |-> 0]
PosInf == [k |-> "inf", v |-> 0]
NegInf == [k |-> "-inf", v |-> 0]
Str == [k |-> "str", v |-> 0]
None == [k |-> "none", v |-> 0]
NoKey == "<None>"

\* float(x) succeeds (it raises for None and for non-numeric text)
CanFloat(x) == x.k \in {"num", "nan", "inf", "-inf"}
\* math.isfinite(x)
IsFinite(x) == x.k = "num"
\* a < b on floats: every comparison with nan is false
FLt(a, b) ==
    CASE a.k = "nan" \/ b.k = "nan" -> FALSE
      [] a.k = "-inf" -> b.k # "-inf"
      [] a.k = "inf" -> FALSE
      [] b.k = "inf" -> TRUE
      [] b.k = "-inf" -> FALSE
      [] OTHER -> a.v < b.v

Abs(n) == IF n < 0 THEN -n ELSE n

RECURSIVE GCD(_, _)
GCD(a, b) == IF b = 0 THEN a ELSE GCD(b, a % b)

\* the quotient n / d (d # 0) as a reduced fraction
Frac(n, d) ==
    LET g == GCD(Abs(n), Abs(d))
        s == IF d < 0 THEN -1 ELSE 1
    IN  <<(s * n) \div g, (s * d) \div g>>

\* a <= b on fractions
FracLeq(a, b) == a[1] * b[2] <= b[1] * a[2]

RECURSIVE SumSeq(_)
SumSeq(s) == IF s = <<>> THEN 0 ELSE Head(s) + SumSeq(Tail(s))

RECURSIVE Concat(_)
Concat(ss) == IF ss = <<>> THEN <<>> ELSE Head(ss) \o Concat(Tail(ss))

----------------------------------------------------------------------------
\* Coordinate Normalizer: _coerce_lon_lat. The result is <<lon, lat>>, or
\* <<>> for None.

coerce_lon_lat(x, y) ==
    IF ~(CanFloat(x) /\ CanFloat(y)) THEN <<>>
    ELSE IF ~(IsFinite(x) /\ IsFinite(y)) THEN <<>>   \* abs() <= bound is false for nan and inf
    ELSE IF Abs(x.v) <= 180 /\ Abs(y.v) <= 90 THEN <<x.v, y.v>>
    ELSE IF Abs(x.v) <= 90 /\ Abs(y.v) <= 180 THEN <<y.v, x.v>>
    ELSE <<>>

\* the vertices of a ring that coerce, in order (the first loop of _ring_centroid)
RECURSIVE ring_pts(_)
ring_pts(ring) ==
    IF ring = <<>> THEN <<>>
    ELSE LET pt == Head(ring)
             c == IF Len(pt) >= 2 THEN coerce_lon_lat(pt[1], pt[2]) ELSE <<>>
         IN  (IF c # <<>> THEN <<c>> ELSE <<>>) \o ring_pts(Tail(ring))

\* mean of a non-empty sequence of <<lon, lat>> pairs, as fractions
mean_pt(pts) ==
    <<Frac(SumSeq([i \in 1..Len(pts) |-> pts[i][1]]), Len(pts)),
      Frac(SumSeq([i \in 1..Len(pts) |-> pts[i][2]]), Len(pts))>>

\* _ring_centroid, lines 64-66: the ring is closed if it is not
closed_ring(pts) == IF pts[1] # pts[Len(pts)] THEN Append(pts, pts[1]) ELSE pts

\* line 73: cross = x0 * y1 - x1 * y0 for the edge from vertex i
Cross(pts, i) == pts[i][1] * pts[i + 1][2] - pts[i + 1][1] * pts[i][2]

\* lines 67-76: twice_area, and cx (c = 1) or cy (c = 2)
twice_area(pts) == SumSeq([i \in 1..(Len(pts) - 1) |-> Cross(pts, i)])
moment(pts, c) ==
    SumSeq([i \in 1..(Len(pts) - 1) |-> (pts[i][c] + pts[i + 1][c]) * Cross(pts, i)])

\* lines 67-84 on the closed ring pts. With integer vertices
\* abs(twice_area) < 1e-12 is twice_area = 0.
shoelace(pts) ==
    IF twice_area(pts) = 0
    THEN mean_pt(SubSeq(pts, 1, Len(pts) - 1))
    ELSE <<Frac(moment(pts, 1), 3 * twice_area(pts)),
           Frac(moment(pts, 2), 3 * twice_area(pts))>>

\* lines 56-84 on the coerced vertices
centroid_of_pts(pts) ==
    IF Len(pts) < 3
    THEN IF Len(pts) = 0 THEN <<>> ELSE mean_pt(pts)
    ELSE shoelace(closed_ring(pts))

\* _ring_centroid: <<lon, lat>> as fractions, or <<>> for None
ring_centroid(ring) == centroid_of_pts(ring_pts(ring))

\* Geometry values.
NoGeom == [type |-> "null", coordinates |-> <<>>, geometries |-> <<>>]
Geom(t, c) == [type |-> t, coordinates |-> c, geometries |-> <<>>]
GeomColl(gs) == [type |-> "GeometryCollection", coordinates |-> <<>>, geometries |-> gs]

\* one coerced coordinate as the (lat, lon) point it appends
point_of(p) ==
    LET c == IF Len(p) >= 2 THEN coerce_lon_lat(p[1], p[2]) ELSE <<>>
    IN  IF c # <<>> THEN << <<Frac(c[2], 1), Frac(c[1], 1)>> >> ELSE <<>>

\* one ring's centroid as the (lat, lon) point it appends
centroid_of(ring) ==
    LET c == ring_centroid(ring)
    IN  IF c # <<>> THEN << <<c[2], c[1]>> >> ELSE <<>>

\* Geometry Reducer: _geom_to_points, a sequence of <<lat, lon>> points.
RECURSIVE geom_to_points(_)
geom_to_points(geom) ==
    LET coords == geom.coordinates
    IN  CASE geom.type = "null" -> <<>>
          [] geom.type = "Point" -> point_of(coords)
          [] geom.type = "MultiPoint" ->
                Concat([i \in 1..Len(coords) |-> point_of(coords[i])])
          [] geom.type = "Polygon" ->
                centroid_of(IF coords # <<>> THEN coords[1] ELSE <<>>)
          [] geom.type = "MultiPolygon" ->
                Concat([i \in 1..Len(coords) |->
                          IF coords[i] # <<>> THEN centroid_of(coords[i][1]) ELSE <<>>])
          [] geom.type = "GeometryCollection" ->
                Concat([i \in 1..Len(geom.geometries) |-> geom_to_points(geom.geometries[i])])
          [] OTHER -> <<>>

----------------------------------------------------------------------------
\* Weight Selector: _pick_weight_key. props is the properties mapping in
\* stored order, a sequence of <<name, value>> pairs.

HasKey(props, k) == \E i \in 1..Len(props) : props[i][1] = k
\* props.get(k)
PropGet(props, k) ==
    IF HasKey(props, k)
    THEN props[CHOOSE i \in 1..Len(props) : props[i][1] = k][2]
    ELSE None
\* math.isfinite(float(v)) evaluates to true (an exception counts as no)
FiniteNumber(v) == CanFloat(v) /\ IsFinite(v)

PriorityKeys == <<"population", "pop", "density", "value", "count">>

\* first element of the sequence of names ks whose value in props is a finite number
RECURSIVE FirstFinite(_, _)
FirstFinite(props, ks) ==
    IF ks = <<>> THEN NoKey
    ELSE IF HasKey(props, Head(ks)) /\ FiniteNumber(PropGet(props, Head(ks))) THEN Head(ks)
    ELSE FirstFinite(props, Tail(ks))

pick_weight_key(props, preferred) ==
    IF preferred # NoKey /\ preferred # "" /\ HasKey(props, preferred)
       /\ FiniteNumber(PropGet(props, preferred))
    THEN preferred
    ELSE IF FirstFinite(props, PriorityKeys) # NoKey
    THEN FirstFinite(props, PriorityKeys)
    ELSE FirstFinite(props, [i \in 1..Len(props) |-> props[i][1]])

----------------------------------------------------------------------------
\* The generator random.Random(42). A generator object is a position in the
\* stream of 32-bit words the Mersenne Twister seeded with 42 produces; the
\* stream is given by the top 16 bits of its first words. randint(0, n - 1)
\* is _randbelow(n): draw n.bit_length() bits until the value is below n.

RngWords ==
    <<41905, 7296, 1639, 48598, 18024, 16049, 14628, 9144,
      48265, 6717, 44348, 48540, 58469, 35741, 5697, 38698,
      27651, 2082, 1952, 6140, 14328, 15247, 33118, 39453,
      1739, 36781, 13031, 46925, 42590, 45962, 35713, 27493,
      14446, 29439, 38618, 18231, 53046, 56970, 425, 49729,
      52810, 10463, 45753, 27696, 22298, 18210, 10189, 14110,
      62731, 50036, 22059, 6698, 6078, 24898, 6338, 23526,
      55541, 22541, 39565, 17335, 52895, 2847, 47823, 30108>>

RECURSIVE Pow2(_)
Pow2(k) == IF k = 0 THEN 1 ELSE 2 * Pow2(k - 1)

RECURSIVE BitLength(_)
BitLength(n) == IF n = 0 THEN 0 ELSE 1 + BitLength(n \div 2)

\* getrandbits(k) of the generator at position pos (k <= 16)
getrandbits(k, pos) == RngWords[pos + 1] \div Pow2(16 - k)

\* _randbelow(n) at position pos: <<value, position afterwards>>
RECURSIVE randbelow(_, _)
randbelow(n, pos) ==
    LET r == getrandbits(BitLength(n), pos)
    IN  IF r >= n THEN randbelow(n, pos + 1) ELSE <<r, pos + 1>>

\* rng.randint(0, total_seen - 1)
randint_total(total_seen, pos) == randbelow(total_seen, pos)

\* the generator object a call of heat_points draws from: rng is a local of
\* the call, so every call has an object of its own
\* variant: one module-level generator object that every call seeds and draws from
SharedRng(r) == 1
NewRng(r) == r

----------------------------------------------------------------------------
\* Reservoir Sampler: the body of the loop over a feature's points, for one
\* point p = <<lat, lon, w>>, after total_seen has been incremented. j is the
\* value rng.randint(0, total_seen - 1) returns when it is called.

\* the point finds the reservoir full
IsFull(reservoir, max_points) == ~(Len(reservoir) < max_points)

\* variant: the capacity test is len(reservoir) <= max_points
sample_point_offbyone(reservoir, max_points, method, p, j) ==
    IF Len(reservoir) <= max_points THEN Append(reservoir, p)
    ELSE IF method = "reservoir"
    THEN IF j < max_points THEN [reservoir EXCEPT ![j + 1] = p] ELSE reservoir
    ELSE reservoir

\* variant: the replacement test is j + 1 < max_points
sample_point_skewed(reservoir, max_points, method, p, j) ==
    IF Len(reservoir) < max_points THEN Append(reservoir, p)
    ELSE IF method = "reservoir"
    THEN IF j + 1 < max_points THEN [reservoir EXCEPT ![j + 1] = p] ELSE reservoir
    ELSE reservoir

sample_point(reservoir, max_points, method, p, j) ==
    IF Len(reservoir) < max_points THEN Append(reservoir, p)
    ELSE IF method = "reservoir"
    THEN IF j < max_points THEN [reservoir EXCEPT ![j + 1] = p] ELSE reservoir
    ELSE reservoir

----------------------------------------------------------------------------
\* Weight Normalizer: the intensity of weight w given the bounds of the buffer.

One == <<1, 1>>
Floor == <<1, 10>>

\* max(0.1, min(1.0, i))
clamp_intensity(i) ==
    LET lo == IF FracLeq(One, i) THEN One ELSE i
    IN  IF FracLeq(lo, Floor) THEN Floor ELSE lo

\* variant: the ratio is rescaled into [0.1, 1.0], 0.1 + 0.9 * i, instead of clamped
intensity_affine(w, wmin, wmax) ==
    IF IsFinite(w)
    THEN Frac(1 * (wmax - wmin) + 9 * (w.v - wmin), 10 * (wmax - wmin))
    ELSE One

intensity(w, wmin, wmax) ==
    clamp_intensity(IF IsFinite(w) THEN Frac(w.v - wmin, wmax - wmin) ELSE One)

SeqMin(s) == CHOOSE x \in {s[i] : i \in 1..Len(s)} : \A i \in 1..Len(s) : x <= s[i]
SeqMax(s) == CHOOSE x \in {s[i] : i \in 1..Len(s)} : \A i \in 1..Len(s) : x >= s[i]

\* the finite weights of the reservoir, in order
RECURSIVE finite_weights(_)
finite_weights(reservoir) ==
    IF reservoir = <<>> THEN <<>>
    ELSE (IF IsFinite(Head(reservoir)[3]) THEN <<Head(reservoir)[3].v>> ELSE <<>>)
         \o finite_weights(Tail(reservoir))

\* the body of a response
Body(points, count, weightKey, total, wmin, wmax, file, max, method) ==
    [points |-> points, count |-> count, weightKey |-> weightKey, total |-> total,
     weightMin |-> wmin, weightMax |-> wmax, file |-> file, max |-> max, method |-> method]

\* the body of a response that carries no payload (an error page)
NoBody == Body(<<>>, 0, NoKey, 0, None, None, NoKey, 0, NoKey)

\* lines 240-277: the JSON object of a success response
build_response(reservoir, chosen_weight_key, total_seen, filename, max_points, method) ==
    IF reservoir = <<>>
    THEN Body(<<>>, 0, chosen_weight_key, total_seen, None, None, NoKey, 0, NoKey)
    ELSE LET weights == finite_weights(reservoir)
             wmin == IF weights # <<>> THEN SeqMin(weights) ELSE 1
             wmax == IF weights # <<>> THEN SeqMax(weights) ELSE 1
         IN  IF wmin = wmax
             THEN Body([i \in 1..Len(reservoir) |-> <<reservoir[i][1], reservoir[i][2], One>>],
                       Len(reservoir), chosen_weight_key, total_seen, Num(1), Num(1),
                       filename, max_points, method)
             ELSE Body([i \in 1..Len(reservoir) |->
                          <<reservoir[i][1], reservoir[i][2],
                            intensity(reservoir[i][3], wmin, wmax)>>],
                       Len(reservoir), chosen_weight_key, total_seen, Num(wmin), Num(wmax),
                       filename, max_points, method)

----------------------------------------------------------------------------
\* The source document. feats is the decodable prefix of the feature array;
\* fault says what follows it: "none" (the array and the document end
\* properly), "truncated" (the document ends there) or "invalid" (a
\* structural error stands there).

Feat(props, geom) == [dict |-> TRUE, props |-> props, geometry |-> geom]
\* an item of the feature array that is not a JSON object
NonDict == [dict |-> FALSE, props |-> <<>>, geometry |-> NoGeom]
Doc(feats, fault) == [exists |-> TRUE, feats |-> feats, fault |-> fault]
NoFile == [exists |-> FALSE, feats |-> <<>>, fault |-> "none"]

DefaultFile == "population_ltu_2019-07-01.geojson"
DefaultMax == 50000

\* the exception classes pulling the next item can raise at a fault: a
\* premature end is IncompleteJSONError; for a structural error the class
\* depends on the decoder backend in use
RaisedAt(fault) ==
    IF fault = "truncated" THEN {"IncompleteJSONError"}
    ELSE {"IncompleteJSONError", "JSONError"}

\* pulling the next item after `items` features raises a decode error
\* variant: the decoder takes a fault for the end of the stream
decode_tolerant(doc, items) == FALSE
decode_fails(doc, items) == items = Len(doc.feats) /\ doc.fault # "none"

----------------------------------------------------------------------------
\* The local state of one call of heat_points.

\* history of the last item pulled (not program state): whether it was a
\* feature object, its weight before clamping, the number of points its
\* geometry reduces to, and total_seen and the reservoir when it was read
NoFeat == [valid |-> FALSE, raw |-> None, npts |-> 0, base |-> 0, resBase |-> <<>>]

Args(file, max, method, weight, min_weight, max_weight) ==
    [file |-> file, max |-> max, method |-> method, weight |-> weight,
     min_weight |-> min_weight, max_weight |-> max_weight]

NewRequest(args) ==
    [args |-> args, pc |-> "start",
     filename |-> NoKey, max_points |-> 0, method |-> NoKey, weight_key_param |-> NoKey,
     min_w_val |-> None, max_w_val |-> None,
     rng |-> 0, reservoir |-> <<>>, total_seen |-> 0, chosen_weight_key |-> NoKey,
     items |-> 0, weight_val |-> None, pts |-> <<>>, exc |-> NoKey,
     status |-> 0, body |-> NoBody,
     checked |-> FALSE, opened |-> FALSE, failedAt |-> -1, cur |-> NoFeat]

\* the call returns or aborts with this status and body
Done(rq, status, body) == [rq EXCEPT !.pc = "done", !.status = status, !.body = body]

\* str.lower() on the method names that are enumerated
Lower(s) ==
    CASE s = "FIRST" -> "first"
      [] s = "Reservoir" -> "reservoir"
      [] OTHER -> s

\* lines 171-184: the dependency check and the parsing of the query. int()
\* and float() raise ValueError outside any try block: the exception leaves
\* the view and the framework answers 500.
parse_args(rq, ijson_ok) ==
    LET a == rq.args
        m0 == IF a.method = NoKey \/ a.method = "" THEN "reservoir" ELSE Lower(a.method)
    IN  IF ~ijson_ok THEN Done(rq, 500, NoBody)
        ELSE IF a.max # None /\ a.max.k # "num" THEN Done(rq, 500, NoBody)
        ELSE IF a.min_weight # None /\ ~CanFloat(a.min_weight) THEN Done(rq, 500, NoBody)
        ELSE IF a.max_weight # None /\ ~CanFloat(a.max_weight) THEN Done(rq, 500, NoBody)
        ELSE [rq EXCEPT
                !.pc = "isfile",
                !.filename = IF a.file = NoKey THEN DefaultFile ELSE a.file,
                !.max_points = IF a.max = None THEN DefaultMax ELSE a.max.v,
                !.method = IF m0 \in {"reservoir", "first"} THEN m0 ELSE "reservoir",
                !.weight_key_param = a.weight,
                !.min_w_val = a.min_weight,
                !.max_w_val = a.max_weight]

ParseArgs(r) ==
    /\ reqs[r].pc = "start"
    /\ reqs' = [reqs EXCEPT ![r] = parse_args(reqs[r], ijson)]
    /\ UNCHANGED <<ijson, disk, rng, u>>

\* lines 186-193: os.path.isfile, then the fresh generator, reservoir,
\* counter and weight key of this call
CheckFile(r) ==
    LET rq == reqs[r]
    IN  /\ rq.pc = "isfile"
        /\ IF ~disk[rq.filename].exists
           THEN /\ reqs' = [reqs EXCEPT ![r] = Done([rq EXCEPT !.checked = TRUE], 404, NoBody)]
                /\ rng' = rng
           ELSE /\ reqs' = [reqs EXCEPT ![r] =
                              [rq EXCEPT !.pc = "open", !.checked = TRUE, !.rng = NewRng(r),
                                         !.reservoir = <<>>, !.total_seen = 0,
                                         !.chosen_weight_key = NoKey]]
                /\ rng' = [rng EXCEPT ![NewRng(r)] = 0]
        /\ UNCHANGED <<ijson, disk, u>>

\* lines 195-198: the file is opened and the lazy item stream is created
OpenFile(r) ==
    /\ reqs[r].pc = "open"
    /\ reqs' = [reqs EXCEPT ![r] = [reqs[r] EXCEPT !.pc = "iter", !.opened = TRUE]]
    /\ UNCHANGED <<ijson, disk, rng, u>>

\* lines 205-206: the weight key is looked for while none has been chosen
\* variant: the key is looked for on every feature
resolve_key_always(chosen, props, preferred) == pick_weight_key(props, preferred)
resolve_key(chosen, props, preferred) ==
    IF chosen = NoKey THEN pick_weight_key(props, preferred) ELSE chosen

\* lines 208-213: float(props.get(key)), None when there is no key or float() raises
parse_weight(key, props) ==
    IF key # NoKey /\ CanFloat(PropGet(props, key)) THEN PropGet(props, key) ELSE None

\* line 215: the feature is dropped
\* variant: no feature is dropped
below_min_never(weight_val, min_w_val) == FALSE
below_min(weight_val, min_w_val) ==
    min_w_val # None /\ weight_val # None /\ FLt(weight_val, min_w_val)

\* lines 217-218: the weight is clamped
above_max(weight_val, max_w_val) ==
    max_w_val # None /\ weight_val # None /\ FLt(max_w_val, weight_val)

\* lines 215-220: the thresholds and the reduced geometry of a feature whose
\* weight key is key and whose parsed weight is weight_val
weigh_feature(rq, key, weight_val, pts) ==
    IF below_min(weight_val, rq.min_w_val)
    THEN [rq EXCEPT !.items = @ + 1, !.chosen_weight_key = key, !.weight_val = weight_val,
                    !.cur = [valid |-> TRUE, raw |-> weight_val, npts |-> Len(pts),
                             base |-> rq.total_seen, resBase |-> rq.reservoir]]
    ELSE [rq EXCEPT !.items = @ + 1, !.chosen_weight_key = key,
                    !.weight_val = IF above_max(weight_val, rq.max_w_val)
                                   THEN rq.max_w_val ELSE weight_val,
                    !.pts = pts, !.pc = "points",
                    !.cur = [valid |-> TRUE, raw |-> weight_val, npts |-> Len(pts),
                             base |-> rq.total_seen, resBase |-> rq.reservoir]]

\* lines 208-220 once the weight key is key
keyed_feature(rq, feat, key) ==
    weigh_feature(rq, key, parse_weight(key, feat.props), geom_to_points(feat.geometry))

\* lines 200-220: one item of the stream up to the reduction of its geometry
read_feature(rq, feat) ==
    IF ~feat.dict THEN [rq EXCEPT !.items = @ + 1, !.cur = NoFeat]
    ELSE keyed_feature(rq, feat,
                       resolve_key(rq.chosen_weight_key, feat.props, rq.weight_key_param))

\* line 199: the next item is pulled from the stream: the stream ends, the
\* decoder raises, or a feature is read and processed up to its points
NextFeature(r) ==
    LET rq == reqs[r]
        doc == disk[rq.filename]
    IN  /\ rq.pc = "iter"
        /\ IF decode_fails(doc, rq.items)
           THEN \E e \in RaisedAt(doc.fault) :
                    reqs' = [reqs EXCEPT ![r] =
                               [rq EXCEPT !.pc = "inner_except", !.exc = e,
                                          !.failedAt = rq.items]]
           ELSE IF rq.items >= Len(doc.feats)
           THEN reqs' = [reqs EXCEPT ![r] = [rq EXCEPT !.pc = "respond"]]
           ELSE reqs' = [reqs EXCEPT ![r] = read_feature(rq, doc.feats[rq.items + 1])]
        /\ UNCHANGED <<ijson, disk, rng, u>>

\* line 222: the weight a point carries
point_weight(weight_val) ==
    IF weight_val # None /\ IsFinite(weight_val) THEN weight_val ELSE Num(1)

\* lines 221-232: one point of the current feature
TakePoint(r) ==
    LET rq == reqs[r]
        p == <<Head(rq.pts)[1], Head(rq.pts)[2], point_weight(rq.weight_val)>>
        total == rq.total_seen + 1
        full == IsFull(rq.reservoir, rq.max_points)
        draws == full /\ rq.method = "reservoir"
        d == IF draws THEN randint_total(total, rng[rq.rng]) ELSE <<0, rng[rq.rng]>>
    IN  /\ rq.pc = "points"
        /\ rq.pts # <<>>
        /\ reqs' = [reqs EXCEPT ![r] =
                      [rq EXCEPT !.total_seen = total,
                                 !.reservoir = sample_point(rq.reservoir, rq.max_points,
                                                            rq.method, p, d[1]),
                                 !.pts = IF full /\ ~draws THEN <<>> ELSE Tail(rq.pts)]]
        /\ rng' = IF draws THEN [rng EXCEPT ![rq.rng] = d[2]] ELSE rng
        /\ UNCHANGED <<ijson, disk, u>>

\* variant: the loop over the features goes on when the reservoir is full
EndFeature_keeps_scanning(r) ==
    /\ reqs[r].pc = "points"
    /\ reqs[r].pts = <<>>
    /\ reqs' = [reqs EXCEPT ![r] = [reqs[r] EXCEPT !.pc = "iter"]]
    /\ UNCHANGED <<ijson, disk, rng, u>>

\* lines 233-234: after the points of a feature, the scan stops under
\* 'first' once the reservoir is full
EndFeature(r) ==
    LET rq == reqs[r]
    IN  /\ rq.pc = "points"
        /\ rq.pts = <<>>
        /\ reqs' = [reqs EXCEPT ![r] =
                      [rq EXCEPT !.pc = IF rq.method = "first"
                                           /\ Len(rq.reservoir) >= rq.max_points
                                        THEN "respond" ELSE "iter"]]
        /\ UNCHANGED <<ijson, disk, rng, u>>

\* lines 235-236: the inner handler takes IncompleteJSONError and calls
\* abort(400), which raises the HTTP exception BadRequest inside the outer
\* try block; any other exception passes it by
InnerExcept(r) ==
    LET rq == reqs[r]
    IN  /\ rq.pc = "inner_except"
        /\ reqs' = [reqs EXCEPT ![r] =
                      [rq EXCEPT !.pc = "outer_except",
                                 !.exc = IF rq.exc = "IncompleteJSONError"
                                         THEN "BadRequest" ELSE rq.exc]]
        /\ UNCHANGED <<ijson, disk, rng, u>>

\* line 237: what `except Exception` takes: the decoder's errors and the
\* HTTP exceptions abort() raises are all subclasses of Exception
CaughtAsException(exc) == exc \in {"IncompleteJSONError", "JSONError", "BadRequest"}

\* lines 237-238: the outer handler answers abort(500)
OuterExcept(r) ==
    LET rq == reqs[r]
    IN  /\ rq.pc = "outer_except"
        /\ reqs' = [reqs EXCEPT ![r] =
                      IF CaughtAsException(rq.exc)
                      THEN Done(rq, 500, NoBody)
                      ELSE Done(rq, 400, NoBody)]
        /\ UNCHANGED <<ijson, disk, rng, u>>

\* lines 240-277: the stream is exhausted or the scan stopped: the response
Respond(r) ==
    LET rq == reqs[r]
    IN  /\ rq.pc = "respond"
        /\ reqs' = [reqs EXCEPT ![r] =
                      Done(rq, 200, build_response(rq.reservoir, rq.chosen_weight_key,
                                                   rq.total_seen, rq.filename,
                                                   rq.max_points, rq.method))]
        /\ UNCHANGED <<ijson, disk, rng, u>>

Next ==
    \/ \E r \in DOMAIN reqs : ParseArgs(r)
    \/ \E r \in DOMAIN reqs : CheckFile(r)
    \/ \E r \in DOMAIN reqs : OpenFile(r)
    \/ \E r \in DOMAIN reqs : NextFeature(r)
    \/ \E r \in DOMAIN reqs : TakePoint(r)
    \/ \E r \in DOMAIN reqs : EndFeature(r)
    \/ \E r \in DOMAIN reqs : InnerExcept(r)
    \/ \E r \in DOMAIN reqs : OuterExcept(r)
    \/ \E r \in DOMAIN reqs : Respond(r)

----------------------------------------------------------------------------
\* The sampler under uniform draws. u.dist maps every buffer the sampler can
\* hold after u.seen points to the number of draw sequences that lead to it,
\* each draw j being one of the equally likely values of
\* rng.randint(0, total_seen - 1); u.buf is the buffer of one such sequence.
\* The points of the stream are numbered 1, 2, ...

UOff == [cap |-> 0, seen |-> 0, buf |-> <<>>, j |-> 0, dist |-> <<>>]

\* the values rng.randint(0, total_seen - 1) can return
draw_range(total_seen) == 0..(total_seen - 1)

\* the draws made for point number n offered to buffer b: none is made
\* (one outcome) while the buffer is not full
draws_for(b, cap, n) == IF IsFull(b, cap) THEN draw_range(n) ELSE {0}

RECURSIVE SumOver(_, _)
SumOver(f, S) ==
    IF S = {} THEN 0
    ELSE LET x == CHOOSE y \in S : TRUE IN f[x] + SumOver(f, S \ {x})

\* <<buffer after, buffer before, draw>> for point n offered to every buffer of dist
outcomes(dist, cap, n) ==
    UNION {{<<sample_point(b, cap, "reservoir", n, j), b, j>> : j \in draws_for(b, cap, n)} :
              b \in DOMAIN dist}

\* the number of draw sequences behind every buffer, given the outcomes oc
count_outcomes(dist, oc) ==
    [t \in {o[1] : o \in oc} |->
        SumOver([o \in oc |-> dist[o[2]]], {o \in oc : o[1] = t})]

\* the distribution after point n is offered to every buffer of dist
push_dist(dist, cap, n) == count_outcomes(dist, outcomes(dist, cap, n))

\* the next point of the stream is offered to the sampler
offer(st, nd) ==
    {[st EXCEPT !.seen = @ + 1,
                !.buf = sample_point(st.buf, st.cap, "reservoir", st.seen + 1, j),
                !.j = j,
                !.dist = nd] : j \in draws_for(st.buf, st.cap, st.seen + 1)}

UOffer ==
    /\ u.cap >= 1
    /\ u.seen < MaxStream
    /\ u' \in offer(u, push_dist(u.dist, u.cap, u.seen + 1))
    /\ UNCHANGED <<ijson, disk, reqs, rng>>

NextU == UOffer

----------------------------------------------------------------------------
\* Inputs.

Seqs(S, n) == UNION {[1..k -> S] : k \in 0..n}

Pt(x, y) == <<Num(x), Num(y)>>
Square == <<Pt(0, 0), Pt(4, 0), Pt(4, 4), Pt(0, 4), Pt(0, 0)>>
Triangle == <<Pt(20, 50), Pt(26, 50), Pt(26, 56)>>
Collinear == <<Pt(0, 0), Pt(2, 2), Pt(4, 4)>>
Bowtie == <<Pt(0, 0), Pt(1, 1), Pt(180, 1), Pt(180, 2)>>
Concave == <<Pt(0, 0), Pt(6, 0), Pt(6, 6), Pt(3, 1), Pt(0, 6)>>

GPoint == Geom("Point", Pt(25, 54))
GMulti == Geom("MultiPoint", <<Pt(24, 55), Pt(100, 95), Pt(26, 56)>>)
GSquare == Geom("Polygon", <<Square>>)

GeoPool ==
    {NoGeom, GPoint, GMulti, GSquare,
     Geom("Point", Pt(54, 125)),
     Geom("Point", <<Num(25)>>),
     Geom("Point", <<Str, Num(54)>>),
     Geom("MultiPoint", <<Pt(-180, -90), <<Num(1)>>, <<NaN, Num(2)>>, Pt(90, 180)>>),
     Geom("Polygon", <<Collinear>>),
     Geom("Polygon", <<Concave>>),
     Geom("Polygon", <<Bowtie>>),
     Geom("Polygon", << <<Pt(25, 54), Pt(200, 100), Pt(27, 54)>> >>),
     Geom("Polygon", <<>>),
     Geom("MultiPolygon", << <<Square>>, <<>>, <<Triangle, Square>> >>),
     Geom("LineString", <<Pt(0, 0), Pt(1, 1)>>),
     GeomColl(<<GPoint, GeomColl(<<GSquare>>), NoGeom>>)}

Pop(w) == << <<"pop", Num(w)>> >>

\* features that differ in weight and in the number of points
ScanPool == {Feat(Pop(10), GPoint), Feat(Pop(20), GSquare), Feat(Pop(30), GMulti)}

\* features that differ in their properties
KeyPool ==
    {NonDict,
     Feat(<<>>, GPoint),
     Feat(<< <<"name", Str>>, <<"count", NaN>> >>, GPoint),
     Feat(<< <<"name", Str>>, <<"value", Num(20)>>, <<"pop", Str>> >>, GPoint),
     Feat(<< <<"x", Num(5)>>, <<"value", PosInf>>, <<"pop", Num(10)>> >>, GPoint)}

Missing == "missing.geojson"

Scenario(ij, doc, args) == [ijson |-> ij, doc |-> doc, args |-> args]

\* every stream over ScanPool, ending properly or at a fault, under both
\* strategies and every capacity
ScanScenarios ==
    {Scenario(TRUE, Doc(f, fault), Args(NoKey, Num(m), meth, NoKey, None, None)) :
        f \in Seqs(ScanPool, MaxFeatures), fault \in {"none", "truncated", "invalid"},
        m \in 0..MaxCap, meth \in {"reservoir", "first"}}

\* the thresholds
ThresholdScenarios ==
    {Scenario(TRUE, Doc(f, "none"), Args(NoKey, Num(m), meth, NoKey, lo, hi)) :
        f \in Seqs(ScanPool, MaxFeatures), m \in 1..2, meth \in {"reservoir", "first"},
        lo \in {None, Num(15), Num(25)}, hi \in {None, Num(15), Num(25), NegInf}}

\* the query: absent, well-formed and malformed values of every parameter
ArgScenarios ==
    {Scenario(ij, Doc(<<Feat(Pop(10), GPoint), Feat(Pop(30), GMulti)>>, "none"),
              Args(file, max, meth, NoKey, lo, hi)) :
        ij \in BOOLEAN, file \in {NoKey, Missing},
        max \in {None, Str, Num(-1), Num(1)},
        meth \in {NoKey, "", "FIRST", "bogus"},
        lo \in {None, Str, NaN}, hi \in {None, Str, PosInf}}

\* the properties of the features and the preferred key
KeyScenarios ==
    {Scenario(TRUE, Doc(f, "none"), Args(NoKey, Num(2), "reservoir", pref, None, None)) :
        f \in Seqs(KeyPool, MaxFeatures), pref \in {NoKey, "", "value", "x", "name"}}

\* the geometries
GeoScenarios ==
    {Scenario(TRUE, Doc(<<Feat(Pop(10), g)>>, "none"),
              Args(NoKey, Num(2), "first", NoKey, None, None)) : g \in GeoPool}

Scenarios ==
    ScanScenarios \cup ThresholdScenarios \cup ArgScenarios \cup KeyScenarios
        \cup GeoScenarios

Disk(doc) == [n \in {DefaultFile, Missing} |-> IF n = DefaultFile THEN doc ELSE NoFile]

Init ==
    \E sc \in Scenarios :
        /\ ijson = sc.ijson
        /\ disk = Disk(sc.doc)
        /\ reqs = [r \in {1} |-> NewRequest(sc.args)]
        /\ rng = [r \in {1} |-> 0]
        /\ u = UOff

Spec == Init /\ [][Next]_vars

\* three concurrent calls over the same files: calls 1 and 2 carry the same
\* query, call 3 any query
PairDocs ==
    {Doc(<<Feat(Pop(10), GPoint), Feat(Pop(30), GMulti), Feat(Pop(20), GSquare)>>, "none"),
     Doc(<<Feat(Pop(30), GMulti), Feat(Pop(10), GPoint)>>, "truncated")}

PairArgs ==
    {Args(NoKey, Num(m), meth, NoKey, None, None) :
        m \in 1..2, meth \in {"reservoir", "first"}}
        \cup {Args(Missing, Num(1), "reservoir", NoKey, None, Num(15))}

InitPair ==
    \E doc \in PairDocs, a \in PairArgs, b \in PairArgs :
        /\ ijson = TRUE
        /\ disk = Disk(doc)
        /\ reqs = [r \in 1..3 |-> NewRequest(IF r = 3 THEN b ELSE a)]
        /\ rng = [r \in 1..3 |-> 0]
        /\ u = UOff

SpecPair == InitPair /\ [][Next]_vars

InitU ==
    \E c \in 1..MaxUCap :
        /\ ijson = TRUE
        /\ disk = Disk(NoFile)
        /\ reqs = <<>>
        /\ rng = <<>>
        /\ u = [cap |-> c, seen |-> 0, buf |-> <<>>, j |-> 0, dist |-> [b \in {<<>>} |-> 1]]

SpecU == InitU /\ [][NextU]_vars

----------------------------------------------------------------------------
\* Properties.

Calls == DOMAIN reqs

\* the document a call reads (once the file has been checked)
DocOf(rq) == disk[rq.filename]

\* C1: when the scan hits a decode failure in the feature array, the request
\* ends with status 400 (Bad Request), not 500 and not 404.
C1_DecodeFailureIsBadRequest ==
    \A r \in Calls :
        (reqs[r].pc = "done" /\ reqs[r].failedAt >= 0) => reqs[r].status = 400

\* C2 as stated: for a truncated document, whatever the position of the
\* truncation, the strategy and the capacity, no success response carrying
\* sampled points is returned.
C2_TruncatedNeverSucceeds ==
    \A r \in Calls :
        (reqs[r].pc = "done" /\ reqs[r].checked /\ DocOf(reqs[r]).exists
         /\ DocOf(reqs[r]).fault = "truncated")
            => ~(reqs[r].status = 200 /\ reqs[r].body.points # <<>>)

\* C2 as amended: for a truncated document, a scan that reaches the
\* truncation ends in a failure status with no points, and this is every
\* scan under the reservoir strategy; a success response is returned only
\* under the first strategy, when the buffer reached capacity and the scan
\* stopped before the truncation was read.
C2_TruncatedFailsUnlessFirstStopsEarly ==
    \A r \in Calls :
        (reqs[r].pc = "done" /\ reqs[r].checked /\ DocOf(reqs[r]).exists
         /\ DocOf(reqs[r]).fault = "truncated")
            => /\ reqs[r].failedAt >= 0 =>
                    (reqs[r].status # 200 /\ reqs[r].body = NoBody)
               /\ reqs[r].status = 200 =>
                    /\ reqs[r].method = "first"
                    /\ Len(reqs[r].reservoir) >= reqs[r].max_points
                    /\ reqs[r].failedAt = -1
               /\ reqs[r].method = "reservoir" => reqs[r].failedAt >= 0

\* a truncated document whose truncation is read after points were sampled
\* from the features before it, and the failure that is reported
C2_Witness ==
    \E r \in Calls :
        /\ reqs[r].pc = "done" /\ reqs[r].checked
        /\ DocOf(reqs[r]).fault = "truncated"
        /\ reqs[r].failedAt >= 1
        /\ reqs[r].reservoir # <<>>
        /\ reqs[r].status # 200

\* C3: with max a positive integer, in every state of the scan the reservoir
\* holds at most max points and at most total_seen points, and every success
\* response has len(points) <= max and len(points) <= total.
C3_ReservoirBounded ==
    \A r \in Calls :
        (reqs[r].pc # "start" /\ reqs[r].max_points >= 1)
            => /\ Len(reqs[r].reservoir) <= reqs[r].max_points
               /\ Len(reqs[r].reservoir) <= reqs[r].total_seen
               /\ reqs[r].status = 200 =>
                    /\ Len(reqs[r].body.points) <= reqs[r].max_points
                    /\ Len(reqs[r].body.points) <= reqs[r].body.total
                    /\ reqs[r].body.count = Len(reqs[r].body.points)

\* a full reservoir that more points than its capacity were offered to
C3_Witness ==
    \E r \in Calls :
        /\ reqs[r].max_points >= 1
        /\ Len(reqs[r].reservoir) = reqs[r].max_points
        /\ reqs[r].total_seen > reqs[r].max_points + 1
        /\ reqs[r].status = 200

\* what _pick_weight_key returns for feature i of the stream (None for an
\* item that is not a feature object)
PickAt(feats, i, preferred) ==
    IF feats[i].dict THEN pick_weight_key(feats[i].props, preferred) ELSE NoKey

\* the features among the first n that resolve a key
Resolving(feats, n, preferred) == {i \in 1..n : PickAt(feats, i, preferred) # NoKey}

\* the key of the first feature among the first n that resolves one
FirstResolved(feats, n, preferred) ==
    IF Resolving(feats, n, preferred) = {} THEN NoKey
    ELSE PickAt(feats,
                CHOOSE i \in Resolving(feats, n, preferred) :
                    \A k \in Resolving(feats, n, preferred) : i <= k,
                preferred)

\* C4 as stated: the weight key is what _pick_weight_key returns for the
\* first feature of the stream, a property name or null, for every later
\* feature and in the response.
C4_KeyFromFirstFeature ==
    \A r \in Calls :
        (reqs[r].opened /\ reqs[r].items >= 1)
            => reqs[r].chosen_weight_key =
                  PickAt(DocOf(reqs[r]).feats, 1, reqs[r].weight_key_param)

\* C4 as amended: the weight key is what _pick_weight_key returns for the
\* first feature object of the stream for which it returns a property name;
\* it is null while no feature read so far has resolved one, the resolution
\* is tried again on every feature until then, and once a name is resolved
\* no later feature changes it; the response reports it.
C4_KeyFromFirstResolvingFeature ==
    \A r \in Calls :
        reqs[r].opened
            => /\ reqs[r].chosen_weight_key =
                    FirstResolved(DocOf(reqs[r]).feats, reqs[r].items,
                                  reqs[r].weight_key_param)
               /\ reqs[r].status = 200 =>
                    reqs[r].body.weightKey = reqs[r].chosen_weight_key

\* the first feature resolved a key and a later feature, which would
\* resolve another one, has been read
C4_Witness ==
    \E r \in Calls :
        /\ reqs[r].opened /\ reqs[r].items >= 2
        /\ PickAt(DocOf(reqs[r]).feats, 1, reqs[r].weight_key_param) # NoKey
        /\ PickAt(DocOf(reqs[r]).feats, 2, reqs[r].weight_key_param) # NoKey
        /\ PickAt(DocOf(reqs[r]).feats, 2, reqs[r].weight_key_param)
              # PickAt(DocOf(reqs[r]).feats, 1, reqs[r].weight_key_param)
        /\ reqs[r].status = 200

\* the last item pulled is a feature whose weight is present and below min_weight
IsBelow(rq) ==
    /\ rq.cur.valid
    /\ rq.min_w_val # None /\ rq.cur.raw # None
    /\ FLt(rq.cur.raw, rq.min_w_val)

\* the last item pulled is a feature whose weight is present and above max_weight
IsAbove(rq) ==
    /\ rq.cur.valid
    /\ rq.max_w_val # None /\ rq.cur.raw # None
    /\ FLt(rq.max_w_val, rq.cur.raw)

\* the loop over the points of the last feature is over
LoopOver(rq) == rq.pc # "points" \/ rq.pts = <<>>

\* the slots of the reservoir written since the last feature was read
Stored(rq) ==
    {i \in 1..Len(rq.reservoir) :
        i > Len(rq.cur.resBase) \/ rq.reservoir[i] # rq.cur.resBase[i]}

Min2(a, b) == IF a <= b THEN a ELSE b
Max2(a, b) == IF a >= b THEN a ELSE b

WeightsOf(reservoir) == [i \in 1..Len(reservoir) |-> reservoir[i][3]]
IntensitiesOf(points) == [i \in 1..Len(points) |-> points[i][3]]
AllEqual(s) == \A i, k \in 1..Len(s) : s[i] = s[k]

\* C6 as stated: buffered weights [10, 20, 30] give intensities
\* [0.1, 0.55, 1.0]; a buffer of equal weights gives 1.0 for every point.
C6_NormalizationAsStated ==
    \A r \in Calls :
        reqs[r].status = 200
            => /\ WeightsOf(reqs[r].reservoir) = <<Num(10), Num(20), Num(30)>> =>
                    IntensitiesOf(reqs[r].body.points) = <<Frac(1, 10), Frac(55, 100), Frac(1, 1)>>
               /\ (reqs[r].reservoir # <<>> /\ AllEqual(WeightsOf(reqs[r].reservoir))) =>
                    \A i \in 1..Len(reqs[r].body.points) : reqs[r].body.points[i][3] = One

\* C6 as amended: buffered weights [10, 20, 30] give intensities
\* [0.1, 0.5, 1.0] (the minimum to the floor 0.1, the maximum to 1.0, the
\* midpoint to 0.5); a buffer of equal weights gives 1.0 for every point.
C6_Normalization ==
    \A r \in Calls :
        reqs[r].status = 200
            => /\ WeightsOf(reqs[r].reservoir) = <<Num(10), Num(20), Num(30)>> =>
                    IntensitiesOf(reqs[r].body.points) = <<Frac(1, 10), Frac(1, 2), Frac(1, 1)>>
               /\ (reqs[r].reservoir # <<>> /\ AllEqual(WeightsOf(reqs[r].reservoir))) =>
                    \A i \in 1..Len(reqs[r].body.points) : reqs[r].body.points[i][3] = One

\* a success response built from the buffer of weights [10, 20, 30]
C6_Witness ==
    \E r \in Calls :
        /\ reqs[r].status = 200
        /\ WeightsOf(reqs[r].reservoir) = <<Num(10), Num(20), Num(30)>>
        /\ Len(reqs[r].body.points) = 3

\* -90 <= lat <= 90 and -180 <= lon <= 180 for a point <<lat, lon, ...>>
InRange(p) ==
    /\ FracLeq(Frac(-90, 1), p[1]) /\ FracLeq(p[1], Frac(90, 1))
    /\ FracLeq(Frac(-180, 1), p[2]) /\ FracLeq(p[2], Frac(180, 1))

\* C7: every point the geometry reducer emits, every point of the reservoir
\* and every point of the response has lat in [-90, 90] and lon in
\* [-180, 180], for every geometry type and every ring of in-range vertices.
C7_PointsInRange ==
    \A r \in Calls :
        /\ \A i \in 1..Len(reqs[r].pts) : InRange(reqs[r].pts[i])
        /\ \A i \in 1..Len(reqs[r].reservoir) : InRange(reqs[r].reservoir[i])
        /\ \A i \in 1..Len(reqs[r].body.points) : InRange(reqs[r].body.points[i])

\* C8: two executions of the same request return identical responses,
\* whatever other requests ran before them or are interleaved with them.
C8_Deterministic ==
    \A r1, r2 \in Calls :
        (reqs[r1].pc = "done" /\ reqs[r2].pc = "done" /\ reqs[r1].args = reqs[r2].args)
            => /\ reqs[r1].status = reqs[r2].status
               /\ reqs[r1].body = reqs[r2].body

\* two calls with the same query and a third with another one have all
\* returned, the two after drawing from their generators
C8_Witness ==
    \E r1, r2, r3 \in Calls :
        /\ r1 # r2
        /\ reqs[r1].pc = "done" /\ reqs[r2].pc = "done" /\ reqs[r3].pc = "done"
        /\ reqs[r1].args = reqs[r2].args
        /\ reqs[r3].args # reqs[r1].args
        /\ reqs[r1].status = 200 /\ reqs[r1].body.points # <<>>
        /\ reqs[r1].total_seen > reqs[r1].max_points
        /\ reqs[r1].method = "reservoir"
        /\ reqs[r3].status = 200 /\ reqs[r3].method = "reservoir"
        /\ reqs[r3].total_seen > reqs[r3].max_points

Range(s) == {s[i] : i \in 1..Len(s)}

\* the number of draw sequences after which point i is in the buffer
Mass(i) == SumOver(u.dist, {b \in DOMAIN u.dist : i \in Range(b)})
TotalMass == SumOver(u.dist, DOMAIN u.dist)

\* C9: under the reservoir strategy with capacity C >= 1 and uniform draws,
\* once the buffer is full the next point (number total_seen) replaces a slot
\* in exactly C of the total_seen equally likely draws, and after N >= C
\* points every one of the N points is in the buffer with probability C/N.
C9_Uniform ==
    (u.cap >= 1 /\ u.seen >= u.cap)
        => /\ Cardinality({j \in draw_range(u.seen + 1) :
                              sample_point(u.buf, u.cap, "reservoir", u.seen + 1, j) # u.buf})
                 = u.cap
           /\ Cardinality(draw_range(u.seen + 1)) = u.seen + 1
           /\ \A i \in 1..u.seen : u.seen * Mass(i) = u.cap * TotalMass

\* a stream longer than the capacity, the first point of which has been
\* replaced in the buffer at hand
C9_Witness ==
    /\ u.cap >= 2
    /\ u.seen >= u.cap + 2
    /\ 1 \notin Range(u.buf)
    /\ u.seen \in Range(u.buf)

\* the query carries a max that int() rejects or a threshold float() rejects
Malformed(a) ==
    \/ a.max # None /\ a.max.k # "num"
    \/ a.min_weight # None /\ ~CanFloat(a.min_weight)
    \/ a.max_weight # None /\ ~CanFloat(a.max_weight)

\* C10: a request with malformed query parameters is rejected with status
\* 400 (InvalidRequest) before the file is checked or opened; it is never
\* reported as 500 or 404 and no feature is read.
C10_MalformedIsInvalidRequest ==
    \A r \in Calls :
        (ijson /\ reqs[r].pc = "done" /\ Malformed(reqs[r].args))
            => /\ reqs[r].status = 400
               /\ ~reqs[r].checked /\ ~reqs[r].opened
               /\ reqs[r].items = 0

\* the weight the points of feature i of the stream carry: the float of the
\* property under the key in force at feature i, clamped to max_weight, 1.0
\* when absent or not finite
WeightAt(rq, i) ==
    LET feats == DocOf(rq).feats
        raw == parse_weight(FirstResolved(feats, i, rq.weight_key_param), feats[i].props)
    IN  point_weight(IF above_max(raw, rq.max_w_val) THEN rq.max_w_val ELSE raw)

\* feature i of the stream is a feature object that min_weight does not drop
Kept(rq, i) ==
    LET feats == DocOf(rq).feats
    IN  /\ feats[i].dict
        /\ ~below_min(parse_weight(FirstResolved(feats, i, rq.weight_key_param),
                                   feats[i].props),
                      rq.min_w_val)

\* the points feature i of the stream offers to the buffer, in order
PointsAt(rq, i) ==
    IF Kept(rq, i)
    THEN LET g == geom_to_points(DocOf(rq).feats[i].geometry)
         IN  [k \in 1..Len(g) |-> <<g[k][1], g[k][2], WeightAt(rq, i)>>]
    ELSE <<>>

\* the points of the first n features of the stream, in stream order
PointStream(rq, n) == Concat([i \in 1..n |-> PointsAt(rq, i)])

\* the feature with which the stream has offered max points
FillIndex(rq) ==
    CHOOSE i \in 1..Len(DocOf(rq).feats) :
        /\ Len(PointStream(rq, i)) >= rq.max_points
        /\ \A k \in 1..(i - 1) : Len(PointStream(rq, k)) < rq.max_points

\* the scan of a call under the first strategy has filled its buffer
FirstFull(rq) ==
    /\ rq.opened /\ rq.method = "first"
    /\ rq.max_points >= 1 /\ Len(rq.reservoir) >= rq.max_points

\* the buffer is the first max points of the stream, no feature after the
\* one that filled it has been read and none will be, and the response
\* carries the buffer in order
FirstStops(rq) ==
    /\ rq.reservoir = SubSeq(PointStream(rq, Len(DocOf(rq).feats)), 1, rq.max_points)
    /\ rq.items = FillIndex(rq)
    /\ rq.pc \in {"points", "respond", "done"}
    /\ rq.failedAt = -1
    /\ rq.pc = "done" =>
          /\ rq.status = 200
          /\ rq.body.count = rq.max_points
          /\ Len(rq.body.points) = rq.max_points
          /\ \A i \in 1..rq.max_points :
                /\ rq.body.points[i][1] = rq.reservoir[i][1]
                /\ rq.body.points[i][2] = rq.reservoir[i][2]
          /\ rq.body.total = rq.total_seen

\* C11 as stated: under the first strategy, once the buffer holds max points
\* (max >= 1) no later point changes the buffer or is counted in total_seen
\* and no further feature is read: the response holds the first max points
\* of the stream in order and total is the number of points seen when
\* capacity was reached, which is max.
C11_FirstStopsAtCapacity ==
    \A r \in Calls :
        FirstFull(reqs[r])
            => /\ FirstStops(reqs[r])
               /\ reqs[r].total_seen = reqs[r].max_points

\* C11 as amended: under the first strategy, once the buffer holds max points
\* (max >= 1) no later point changes the buffer and no further feature is
\* read: the response holds the first max points of the stream in order;
\* the next point of the feature that filled the buffer, if it has one, is
\* still counted in total_seen before the scan stops, so total is max when
\* the buffer filled with the last point of a feature and max + 1 otherwise.
C11_FirstStopsOnePointLate ==
    \A r \in Calls :
        FirstFull(reqs[r])
            => /\ FirstStops(reqs[r])
               /\ reqs[r].total_seen =
                     IF LoopOver(reqs[r])
                        /\ Len(PointStream(reqs[r], FillIndex(reqs[r]))) > reqs[r].max_points
                     THEN reqs[r].max_points + 1
                     ELSE reqs[r].max_points

\* a response under the first strategy whose buffer filled inside a feature
\* with more points, before the last feature of the stream
C11_Witness ==
    \E r \in Calls :
        /\ FirstFull(reqs[r])
        /\ reqs[r].pc = "done" /\ reqs[r].status = 200
        /\ reqs[r].max_points >= 2
        /\ reqs[r].items >= 2
        /\ reqs[r].items < Len(DocOf(reqs[r]).feats)
        /\ Len(PointStream(reqs[r], FillIndex(reqs[r]))) > reqs[r].max_points
        /\ reqs[r].body.total = reqs[r].max_points + 1

====
